---- MODULE Spec2Model ----
(***************************************************************************)
(* Model of the Libra/0L interactive client front end                      *)
(* (testsuite/cli/src/main.rs): session bootstrap (argument validation,    *)
(* operator-secret read, waypoint resolution, client construction,         *)
(* connectivity check, optional wallet recovery) followed by the           *)
(* read-evaluate dispatch loop.                                            *)
(*                                                                         *)
(* Text is modelled as sequences of one-character strings where the code   *)
(* inspects characters (input lines, tokens, the {:?} rendering) and as    *)
(* sequences of fragments where it only concatenates (messages).           *)
(***************************************************************************)
EXTENDS Integers, Sequences, FiniteSets, TLC

\* ------------------------------------------------------------------ bounds
\* Longest input line enumerated character by character.
MaxLineLen == 3
\* Longest waypoint response body enumerated item by item.
MaxBodyLen == 3

\* ----------------------------------------------------------------- helpers
None == "None"

Range(s) == {s[i] : i \in DOMAIN s}

BoundedSeq(S, n) == UNION {[1..k -> S] : k \in 0..n}

RECURSIVE Concat(_)
\* Concatenation of a sequence of sequences.
Concat(ss) == IF ss = <<>> THEN <<>> ELSE Head(ss) \o Concat(Tail(ss))

\* needle occurs in hay as a contiguous subsequence.
Contains(hay, needle) ==
    \E i \in 0..(Len(hay) - Len(needle)) :
        \A j \in 1..Len(needle) : hay[i + j] = needle[j]

\* ------------------------------------------------------------- characters
\* ASCII whitespace as recognised by str::split_ascii_whitespace.
AsciiWs == {" ", "\t", "\n", "\r"}

\* Characters from which input lines are enumerated.
Alphabet == {"q", "!", "h", "a", "\"", " ", "\t"}

QUIT == <<"q", "u", "i", "t">>
QBANG == <<"q", "!">>
HELP == <<"h", "e", "l", "p">>
H == <<"h">>

\* Longer lines added to the exhaustive short ones.
SampleLines ==
    { QUIT,
      <<" ">> \o HELP \o <<" ">>,
      <<"x", "y", "z">>,
      <<"a", "c", "c", "o", "u", "n", "t", " ", "c">>,
      <<"q", "u", "e", "r", "y", "\t", "b", " ", "0">>,
      <<"d", "e", "v">>,
      QUIT \o <<" ", "n", "o", "w">>,
      <<"x", "\"", "y", " ", "z">> }

Lines == BoundedSeq(Alphabet, MaxLineLen) \cup SampleLines

\* --------------------------------------------------- command library (cli)
RECURSIVE Split(_, _, _)
Split(s, cur, acc) ==
    IF s = <<>>
    THEN IF cur = <<>> THEN acc ELSE Append(acc, cur)
    ELSE IF Head(s) \in AsciiWs
         THEN Split(Tail(s), <<>>, IF cur = <<>> THEN acc ELSE Append(acc, cur))
         ELSE Split(Tail(s), Append(cur, Head(s)), acc)

\* parse_cmd: the whitespace-separated tokens of a line, in order.
parse_cmd(line) == Split(line, <<>>, <<>>)

AccountCommand ==
    [ aliases |-> << <<"a", "c", "c", "o", "u", "n", "t">>, <<"a">> >>,
      params_help |-> "<arg>",
      description |-> "Account operations" ]

QueryCommand ==
    [ aliases |-> << <<"q", "u", "e", "r", "y">>, <<"q">> >>,
      params_help |-> "<arg>",
      description |-> "Query operations" ]

DevCommand ==
    [ aliases |-> << <<"d", "e", "v">>, <<"d">> >>,
      params_help |-> "",
      description |-> "Local Move development" ]

\* get_commands(include_dev).commands: the ordered descriptors.
get_commands(include_dev) ==
    <<AccountCommand, QueryCommand>> \o
    (IF include_dev THEN <<DevCommand>> ELSE <<>>)

\* get_commands(include_dev).alias_to_cmd: alias -> index of its descriptor
\* (built by inserting every alias of every command in order).
build_alias_to_cmd(cmds) ==
    LET owners(al) == {i \in DOMAIN cmds : al \in Range(cmds[i].aliases)}
        all == UNION {Range(cmds[i].aliases) : i \in DOMAIN cmds}
    IN  [al \in all |->
            CHOOSE i \in owners(al) : \A k \in owners(al) : k <= i]

\* report_error(msg, e): one line on the shared error channel.
report_error(msg, e) ==
    [kind |-> "error", text |-> <<"[ERROR] ", msg, ": ", e>>]

\* ------------------------------------------------------ formatting (main.rs)
\* One character as rendered by the {:?} formatting of a string slice.
escape_char(c) ==
    IF c = "\"" THEN <<"\\", "\"">>
    ELSE IF c = "\\" THEN <<"\\", "\\">>
    ELSE <<c>>

RECURSIVE escape_chars(_)
escape_chars(s) ==
    IF s = <<>> THEN <<>> ELSE escape_char(Head(s)) \o escape_chars(Tail(s))

\* format!("{:?}", x) for a string slice x: quoted and escaped.
escape_debug(x) == <<"\"">> \o escape_chars(x) \o <<"\"">>

\* Variant of unknown_command: the token is left out of the diagnostic.
unknown_command_no_token(x) ==
    [kind |-> "unknown", text |-> <<"Unknown command">>]

\* println!("Unknown command: {:?}", x)
unknown_command(x) ==
    [kind |-> "unknown", text |-> <<"Unknown command: ">> \o escape_debug(x)]

RECURSIVE join(_, _)
\* aliases.join(sep)
join(ss, sep) ==
    IF ss = <<>> THEN <<>>
    ELSE IF Len(ss) = 1 THEN Head(ss)
    ELSE Head(ss) \o <<sep>> \o join(Tail(ss), sep)

\* One help entry: "{aliases} {params_help}\n\t{description}".
help_entry(cmd) ==
    [kind |-> "entry",
     text |-> join(cmd.aliases, " | ") \o
              <<" ", cmd.params_help, "\n\t", cmd.description>>]

HelpLine == [kind |-> "meta", text |-> <<"help | h \n\tPrints this help">>]
QuitLine == [kind |-> "meta", text |-> <<"quit | q! \n\tExit this client">>]

\* Variant of print_help: the entries are printed last to first.
print_help_reversed(client_info, cmds) ==
    << [kind |-> "summary", text |-> client_info],
       [kind |-> "usage",
        text |-> <<"usage: <command> <args>\n\nUse the following commands:\n">>] >>
    \o [i \in DOMAIN cmds |-> help_entry(cmds[Len(cmds) + 1 - i])]
    \o << HelpLine, QuitLine, [kind |-> "blank", text |-> <<"\n">>] >>

\* print_help(client_info, commands): the lines printed, in order.
print_help(client_info, cmds) ==
    << [kind |-> "summary", text |-> client_info],
       [kind |-> "usage",
        text |-> <<"usage: <command> <args>\n\nUse the following commands:\n">>] >>
    \o [i \in DOMAIN cmds |-> help_entry(cmds[i])]
    \o << HelpLine, QuitLine, [kind |-> "blank", text |-> <<"\n">>] >>

\* ------------------------------------------------------ waypoint retrieval
\* Items a response body is made of: whitespace, a well-formed waypoint
\* text, and text that is no waypoint.
BodyWs == {" ", "\n"}
WaypointTexts == {"WP123"}
BodyItems == BodyWs \cup WaypointTexts \cup {"junk"}

RECURSIVE trim_start(_)
trim_start(s) ==
    IF s # <<>> /\ Head(s) \in BodyWs THEN trim_start(Tail(s)) ELSE s

RECURSIVE trim_end(_)
trim_end(s) ==
    IF s # <<>> /\ s[Len(s)] \in BodyWs
    THEN trim_end(SubSeq(s, 1, Len(s) - 1)) ELSE s

\* str::trim
trim(s) == trim_end(trim_start(s))

\* Waypoint::from_str: a single well-formed waypoint text parses to its value.
Waypoint_from_str(s) ==
    IF Len(s) = 1 /\ s[1] \in WaypointTexts
    THEN [ok |-> TRUE, value |-> s[1]]
    ELSE [ok |-> FALSE, value |-> None]

Statuses == {200, 404, 500}

\* What the network can answer to the waypoint request.
NetOutcomes ==
    { [kind |-> k, status |-> 0, readable |-> FALSE, body |-> <<>>] :
          k \in {"build_err", "send_err"} }
    \cup
    { [kind |-> "resp", status |-> st, readable |-> rd, body |-> b] :
          st \in Statuses, rd \in BOOLEAN, b \in BoundedSeq(BodyItems, MaxBodyLen) }

\* Response::error_for_status
is_error_status(st) == st >= 400 /\ st <= 599

\* Variant of retrieve_waypoint: a failed send is tried a second time.
retrieve_waypoint_retry(url_str, net) ==
    IF net.kind = "build_err"
    THEN [ok |-> FALSE, value |-> None, gets |-> <<>>,
          err |-> <<"builder error">>]
    ELSE IF net.kind = "send_err"
    THEN [ok |-> FALSE, value |-> None, gets |-> <<url_str, url_str>>,
          err |-> <<"error sending request">>]
    ELSE IF is_error_status(net.status)
    THEN [ok |-> FALSE, value |-> None, gets |-> <<url_str>>,
          err |-> <<"Failed to retrieve waypoint from URL ", url_str>>]
    ELSE IF ~net.readable
    THEN [ok |-> FALSE, value |-> None, gets |-> <<url_str>>,
          err |-> <<"error decoding response body">>]
    ELSE LET w == Waypoint_from_str(trim(net.body))
         IN  [ok |-> w.ok, value |-> w.value, gets |-> <<url_str>>,
              err |-> IF w.ok THEN <<>> ELSE <<"Failed to parse waypoint">>]

\* retrieve_waypoint(url_str) against a network that answers net.
retrieve_waypoint(url_str, net) ==
    IF net.kind = "build_err"
    THEN [ok |-> FALSE, value |-> None, gets |-> <<>>,
          err |-> <<"builder error">>]
    ELSE IF net.kind = "send_err"
    THEN [ok |-> FALSE, value |-> None, gets |-> <<url_str>>,
          err |-> <<"error sending request">>]
    ELSE IF is_error_status(net.status)
    THEN [ok |-> FALSE, value |-> None, gets |-> <<url_str>>,
          err |-> <<"Failed to retrieve waypoint from URL ", url_str>>]
    ELSE IF ~net.readable
    THEN [ok |-> FALSE, value |-> None, gets |-> <<url_str>>,
          err |-> <<"error decoding response body">>]
    ELSE LET w == Waypoint_from_str(trim(net.body))
         IN  [ok |-> w.ok, value |-> w.value, gets |-> <<url_str>>,
              err |-> IF w.ok THEN <<>> ELSE <<"Failed to parse waypoint">>]

\* Variant of resolve_waypoint: the URL is preferred when both are given.
resolve_waypoint_url_first(a, net) ==
    IF a.waypoint_url # None
    THEN LET r == retrieve_waypoint(a.waypoint_url, net)
         IN  [ok |-> r.ok, value |-> r.value, gets |-> r.gets,
              panic |-> IF r.ok THEN <<>>
                        ELSE <<"Failure to retrieve a waypoint from ",
                               a.waypoint_url, ": ">> \o r.err]
    ELSE [ok |-> TRUE, value |-> a.waypoint, gets |-> <<>>, panic |-> <<>>]

\* Variant of resolve_waypoint: a failed retrieval is ignored.
resolve_waypoint_ignore_failure(a, net) ==
    IF a.waypoint # None
    THEN [ok |-> TRUE, value |-> a.waypoint, gets |-> <<>>, panic |-> <<>>]
    ELSE LET r == retrieve_waypoint(a.waypoint_url, net)
         IN  [ok |-> TRUE, value |-> r.value, gets |-> r.gets, panic |-> <<>>]

\* args.waypoint.unwrap_or_else(|| args.waypoint_url.map(retrieve ...).unwrap())
resolve_waypoint(a, net) ==
    IF a.waypoint # None
    THEN [ok |-> TRUE, value |-> a.waypoint, gets |-> <<>>, panic |-> <<>>]
    ELSE IF a.waypoint_url = None
    THEN [ok |-> FALSE, value |-> None, gets |-> <<>>,
          panic |-> <<"called Option::unwrap on a None value">>]
    ELSE LET r == retrieve_waypoint(a.waypoint_url, net)
         IN  [ok |-> r.ok, value |-> r.value, gets |-> r.gets,
              panic |-> IF r.ok THEN <<>>
                        ELSE <<"Failure to retrieve a waypoint from ",
                               a.waypoint_url, ": ">> \o r.err]

\* -------------------------------------------------------------- the state
VARIABLES
    pc,               \* position of main: a bootstrap step or a loop state;
                      \* Prompting is the call of rl.readline (line 195)
    args,             \* Args as given on the command line
    node_env,         \* NODE_ENV as env::var sees it, see NodeEnvs
    reads,            \* secret reads made so far, by input path
    mnemonic_string,  \* the operator secret, None until read
    entered_mnem,     \* the secret was non-empty
    commands,         \* the registry: ordered descriptors
    alias_to_cmd,     \* the registry: alias -> index into commands
    waypoint,         \* the resolved trust anchor, None until resolved
    wp_status,        \* "unresolved", "resolved" or "failed"
    gets,             \* URLs of the waypoint GET requests sent so far
    client_proxy,     \* {} or {the client handle}
    cli_info,         \* connection summary
    out,              \* what the last step printed
    readline,         \* the last outcome of rl.readline
    params,           \* tokens of the last line read
    invoked,          \* calls of Command::execute made for the last line
    cmd_result,       \* outcome of the last command action, None if none
    panic_msg,        \* message of the panic that ended the process
    constructs,       \* calls of ClientProxy::new
    conn_checks,      \* calls of test_validator_connection
    recoveries,       \* calls of recover_accounts_in_wallet
    recover_result    \* outcome of the recovery being reported, None if none

vars == << pc, args, node_env, reads, mnemonic_string, entered_mnem, commands,
           alias_to_cmd, waypoint, wp_status, gets, client_proxy, cli_info, out,
           readline, params, invoked, cmd_result, panic_msg, constructs, conn_checks,
           recoveries, recover_result >>

ValidatorUrl == "http://validator:8080"
WaypointUrl == "http://example/wp"
LiteralWaypoint == "WPLIT"

\* Every combination of the options main reads (lines 25-79).
ArgsSet ==
    [ url : {ValidatorUrl},
      mnemonic_file : {None, "wallet.mnemonic"},
      waypoint : {None, LiteralWaypoint},
      waypoint_url : {None, WaypointUrl},
      verbose : BOOLEAN ]

\* What env::var("NODE_ENV") can find: no variable ("unset"), a variable
\* whose value is not valid Unicode ("not_unicode", reported as an Err like
\* the missing variable), or a value.
NodeEnvs == {"unset", "not_unicode", "prod", "test"}

Secrets == {"", "alpha beta"}

Ledgers == { [version |-> 0, timestamp |-> 0],
             [version |-> 7, timestamp |-> 1000000] }

NoRead == [kind |-> None, line |-> <<>>]

Init ==
    /\ pc = "main"
    /\ args \in ArgsSet
    /\ node_env \in NodeEnvs
    /\ reads = <<>>
    /\ mnemonic_string = None
    /\ entered_mnem = FALSE
    /\ commands = <<>>
    /\ alias_to_cmd = <<>>
    /\ waypoint = None
    /\ wp_status = "unresolved"
    /\ gets = <<>>
    /\ client_proxy = {}
    /\ cli_info = <<>>
    /\ out = <<>>
    /\ readline = NoRead
    /\ params = <<>>
    /\ invoked = {}
    /\ cmd_result = None
    /\ panic_msg = <<>>
    /\ constructs = 0
    /\ conn_checks = 0
    /\ recoveries = 0
    /\ recover_result = None

\* ---------------------------------------------------------------- bootstrap
\* Variant of args_accepted: neither option is required.
args_accepted_always(a) == TRUE

\* structopt: waypoint is required unless waypoint_url is given, and
\* waypoint_url is required unless waypoint is given.
args_accepted(a) == a.waypoint # None \/ a.waypoint_url # None

\* Variant of after_parse: the secret is not read before the registry and
\* the waypoint.
after_parse_no_secret(a) ==
    IF args_accepted(a) THEN "registry" ELSE "usage_error"

\* Where main continues after Args::from_args(): the secret read of line 86,
\* or the exit of the process on a rejected command line.
after_parse(a) == IF args_accepted(a) THEN "secret" ELSE "usage_error"

\* Args::from_args(): exits with a usage error on a rejected command line.
ParseArgs ==
    /\ pc = "main"
    /\ pc' = after_parse(args)
    /\ out' = IF args_accepted(args) THEN <<>>
              ELSE << [kind |-> "usage_error",
                       text |-> <<"The following required arguments were not provided">>] >>
    /\ UNCHANGED << recover_result, wp_status, args, node_env, reads, mnemonic_string, entered_mnem,
                    commands, alias_to_cmd, waypoint, gets, client_proxy,
                    cli_info, readline, params, invoked, cmd_result,
                    panic_msg, constructs, conn_checks, recoveries >>

\* env::var returns Err for a missing variable and for a value that is not
\* valid Unicode.
env_var_is_err(env) == env \in {"unset", "not_unicode"}

\* Variant of secret_path: without the variable the standard input is read.
secret_path_unset_stdin(env) ==
    IF env = "prod" THEN "tty" ELSE "stdin"

\* The input path chosen by the match on env::var("NODE_ENV").
secret_path(env) ==
    IF env_var_is_err(env) THEN "tty"
    ELSE IF env = "prod" THEN "tty"
    ELSE "stdin"

secret_banner(env) ==
    << [kind |-> "text", text |-> <<"Enter your 0L mnemonic:">>] >> \o
    (IF ~env_var_is_err(env) /\ env # "prod"
     THEN << [kind |-> "text", text |-> <<"(unsafe STDIN input for testing) ">>] >>
     ELSE <<>>)

\* Lines 86-103: one read of the secret; a failed read panics (unwrap).
ReadSecret ==
    /\ pc = "secret"
    /\ reads' = Append(reads, secret_path(node_env))
    /\ out' = secret_banner(node_env)
    /\ \E r \in [ok : {TRUE}, value : Secrets] \cup {[ok |-> FALSE, value |-> None]} :
          IF r.ok
          THEN /\ mnemonic_string' = r.value
               /\ entered_mnem' = (r.value # "")
               /\ pc' = "registry"
               /\ UNCHANGED panic_msg
          ELSE /\ pc' = "panicked"
               /\ panic_msg' = <<"called Result::unwrap on an Err value">>
               /\ UNCHANGED << mnemonic_string, entered_mnem >>
    /\ UNCHANGED << recover_result, wp_status, args, node_env, commands, alias_to_cmd, waypoint, gets,
                    client_proxy, cli_info, readline, params, invoked,
                    cmd_result, constructs, conn_checks, recoveries >>

\* Lines 106-122 with cmds the descriptors get_commands returns: logger,
\* panic handler and the command registry.
InstallRegistry(cmds) ==
    /\ pc = "registry"
    /\ commands' = cmds
    /\ alias_to_cmd' = build_alias_to_cmd(cmds)
    /\ pc' = "waypoint"
    /\ out' = <<>>
    /\ UNCHANGED << recover_result, wp_status, args, node_env, reads, mnemonic_string, entered_mnem,
                    waypoint, gets, client_proxy, cli_info, readline, params,
                    invoked, cmd_result, panic_msg, constructs, conn_checks,
                    recoveries >>

\* Lines 106-122 with the registry of the command library.
BuildRegistry == InstallRegistry(get_commands(TRUE))

\* A descriptor that registers two of the reserved tokens as its aliases.
ShadowCommand ==
    [ aliases |-> << QBANG, H >>,
      params_help |-> "",
      description |-> "Shadows q! and h" ]

\* Lines 106-122 with a command library whose registry also holds
\* ShadowCommand.
BuildShadowRegistry ==
    InstallRegistry(get_commands(TRUE) \o <<ShadowCommand>>)

\* Lines 124-135: the waypoint, literal or retrieved; a failure panics.
ResolveWaypoint ==
    /\ pc = "waypoint"
    /\ \E net \in NetOutcomes :
          LET r == resolve_waypoint(args, net)
          IN  /\ gets' = gets \o r.gets
              /\ waypoint' = r.value
              /\ wp_status' = IF r.ok THEN "resolved" ELSE "failed"
              /\ panic_msg' = r.panic
              /\ pc' = IF r.ok THEN "construct" ELSE "panicked"
    /\ out' = <<>>
    /\ UNCHANGED << recover_result, args, node_env, reads, mnemonic_string, entered_mnem,
                    commands, alias_to_cmd, client_proxy, cli_info, readline,
                    params, invoked, cmd_result, constructs, conn_checks,
                    recoveries >>

\* The handle ClientProxy::new returns for the arguments main passes.
new_client(a, secret, wp) ==
    [ url |-> a.url,
      mnemonic_file |-> a.mnemonic_file,
      mnemonic_string |-> secret,
      waypoint |-> wp ]

\* Variant of after_construct: a failed construction is tried again.
after_construct_retry(ok) == IF ok THEN "connect" ELSE "construct"

\* Where main continues after ClientProxy::new(..).expect(..) of lines
\* 137-149: expect panics on Err.
after_construct(ok) == IF ok THEN "connect" ELSE "panicked"

\* Lines 137-149: ClientProxy::new(...).expect("Failed to construct client.")
ConstructClient ==
    /\ pc = "construct"
    /\ constructs' = constructs + 1
    /\ \E ok \in BOOLEAN :
          IF ok
          THEN /\ client_proxy' = {new_client(args, mnemonic_string, waypoint)}
               /\ pc' = after_construct(ok)
               /\ UNCHANGED panic_msg
          ELSE /\ pc' = after_construct(ok)
               /\ panic_msg' = <<"Failed to construct client.", ": ", "cause">>
               /\ UNCHANGED client_proxy
    /\ out' = <<>>
    /\ UNCHANGED << recover_result, wp_status, args, node_env, reads, mnemonic_string, entered_mnem,
                    commands, alias_to_cmd, waypoint, gets, cli_info, readline,
                    params, invoked, cmd_result, conn_checks, recoveries >>

\* DateTime::<Utc>::from(UNIX_EPOCH + Duration::from_micros(t)) as displayed.
render_timestamp(t) ==
    IF t = 0 THEN "1970-01-01 00:00:00 UTC" ELSE "1970-01-01 00:00:01 UTC"

\* Lines 160-168: the connection summary.
make_cli_info(a, md) ==
    << "Connected to validator at: ", a.url, ", ",
       "latest version = ", ToString(md.version),
       ", timestamp = ", render_timestamp(md.timestamp) >>

\* The panic message of lines 153-158.
connection_failure(a, e) ==
    << "Not able to connect to validator at ", a.url, ". Error: ", e >>

\* Variant of after_connect: a failed connectivity check is passed over.
after_connect_continue(ok) == "recover"

\* Where main continues after test_validator_connection().unwrap_or_else(..)
\* of lines 152-159: the closure panics on Err.
after_connect(ok) == IF ok THEN "recover" ELSE "panicked"

\* Lines 151-168: the connectivity check; a failure panics.
TestConnection ==
    /\ pc = "connect"
    /\ conn_checks' = conn_checks + 1
    /\ \E r \in [ok : {TRUE}, md : Ledgers] \cup
                {[ok |-> FALSE, md |-> [version |-> 0, timestamp |-> 0]]} :
          IF r.ok
          THEN /\ cli_info' = make_cli_info(args, r.md)
               /\ pc' = after_connect(r.ok)
               /\ UNCHANGED panic_msg
          ELSE /\ pc' = after_connect(r.ok)
               /\ panic_msg' = connection_failure(args, "cause")
               /\ UNCHANGED cli_info
    /\ out' = <<>>
    /\ UNCHANGED << recover_result, wp_status, args, node_env, reads, mnemonic_string, entered_mnem,
                    commands, alias_to_cmd, waypoint, gets, client_proxy,
                    readline, params, invoked, cmd_result, constructs,
                    recoveries >>

\* Variant of wants_recovery: only the mnemonic file triggers the recovery.
wants_recovery_file_only(entered, a) == a.mnemonic_file # None

\* The guard of line 171.
wants_recovery(entered, a) == entered \/ a.mnemonic_file # None

\* What lines 172-183 print for the outcome of the recovery.
recovery_output(ok, n) ==
    IF ok
    THEN << [kind |-> "text",
             text |-> << "Wallet recovered and the first ", ToString(n),
                         " child accounts were derived" >>] >> \o
         [i \in 1..n |->
            [kind |-> "text",
             text |-> <<"#", ToString(i - 1), " address ", "addr">>]]
    ELSE << report_error("Error recovering Libra wallet", "cause") >>

\* Variant of after_recovery: a failed recovery ends the process.
after_recovery_fatal(ok) == IF ok THEN "help" ELSE "panicked"

\* Where main continues after the match of lines 172-183: at print_help,
\* whatever the outcome (the Err arm only reports).
after_recovery(ok) == "help"

\* Lines 171-184: wallet recovery when a secret or a mnemonic file is given.
RecoverWallet ==
    /\ pc = "recover"
    /\ IF wants_recovery(entered_mnem, args)
       THEN /\ recoveries' = recoveries + 1
            /\ \E r \in [ok : {TRUE}, n : {0, 2}] \cup {[ok |-> FALSE, n |-> 0]} :
                  /\ out' = recovery_output(r.ok, r.n)
                  /\ recover_result' = IF r.ok THEN "ok" ELSE "err"
                  /\ pc' = after_recovery(r.ok)
       ELSE /\ out' = <<>>
            /\ pc' = "help"
            /\ UNCHANGED << recoveries, recover_result >>
    /\ UNCHANGED << wp_status, args, node_env, reads, mnemonic_string, entered_mnem,
                    commands, alias_to_cmd, waypoint, gets, client_proxy,
                    cli_info, readline, params, invoked, cmd_result,
                    panic_msg, constructs, conn_checks >>

\* Lines 185-193: the help text, the invitation, and the line editor; the
\* result of the recovery is out of scope.
PrintBanner ==
    /\ pc = "help"
    /\ out' = print_help(cli_info, commands) \o
              << [kind |-> "text", text |-> <<"Please, input commands: \n">>] >>
    /\ pc' = "Prompting"
    /\ recover_result' = None
    /\ UNCHANGED << wp_status, args, node_env, reads, mnemonic_string, entered_mnem,
                    commands, alias_to_cmd, waypoint, gets, client_proxy,
                    cli_info, readline, params, invoked, cmd_result,
                    panic_msg, constructs, conn_checks, recoveries >>

\* ------------------------------------------------------------ dispatch loop
\* What rl.readline("libra% ") can return.
ReadlineOutcomes ==
    { [kind |-> "Ok", line |-> l] : l \in Lines } \cup
    { [kind |-> k, line |-> <<>>] : k \in {"Interrupted", "Eof", "Io"} }

\* alias_to_cmd.get(key): the index of the command, 0 for Option::None.
lookup(table, key) == IF key \in DOMAIN table THEN table[key] ELSE 0

\* Variant of timestamp_line: the timestamp is printed in every mode.
timestamp_line_always(verbose) ==
    << [kind |-> "timestamp", text |-> <<"now">>] >>

\* Line 205: the timestamp printed in verbose mode.
timestamp_line(verbose) ==
    IF verbose THEN << [kind |-> "timestamp", text |-> <<"now">>] >> ELSE <<>>

\* Lines 203-208: a registered alias; the command is called next.
on_command(cmd, verbose) ==
    [pc |-> "Executing", out |-> timestamp_line(verbose), cmd |-> cmd]

\* Variant of on_unregistered: the catch-all arm leaves the loop.
on_unregistered_unknown_exits(x, info, cmds) ==
    IF x = QUIT \/ x = QBANG
    THEN [pc |-> "Exiting", out |-> <<>>, cmd |-> 0]
    ELSE IF x = HELP \/ x = H
    THEN [pc |-> "LoopEnd", out |-> print_help(info, cmds), cmd |-> 0]
    ELSE IF x = <<>>
    THEN [pc |-> "LoopEnd", out |-> <<>>, cmd |-> 0]
    ELSE [pc |-> "Exiting", out |-> <<unknown_command(x)>>, cmd |-> 0]

\* Variant of on_unregistered: only the long quit token leaves the loop.
on_unregistered_quit_only(x, info, cmds) ==
    IF x = QUIT
    THEN [pc |-> "Exiting", out |-> <<>>, cmd |-> 0]
    ELSE IF x = HELP \/ x = H
    THEN [pc |-> "LoopEnd", out |-> print_help(info, cmds), cmd |-> 0]
    ELSE IF x = <<>>
    THEN [pc |-> "LoopEnd", out |-> <<>>, cmd |-> 0]
    ELSE [pc |-> "LoopEnd", out |-> <<unknown_command(x)>>, cmd |-> 0]

\* Lines 209-214: the key is no registered alias.
on_unregistered(x, info, cmds) ==
    IF x = QUIT \/ x = QBANG
    THEN [pc |-> "Exiting", out |-> <<>>, cmd |-> 0]
    ELSE IF x = HELP \/ x = H
    THEN [pc |-> "LoopEnd", out |-> print_help(info, cmds), cmd |-> 0]
    ELSE IF x = <<>>
    THEN [pc |-> "LoopEnd", out |-> <<>>, cmd |-> 0]
    ELSE [pc |-> "LoopEnd", out |-> <<unknown_command(x)>>, cmd |-> 0]

\* Variant of dispatch: without the is_empty test, a line without tokens
\* reaches the catch-all arm.
dispatch_no_empty_test(ps, table, info, cmds, verbose) ==
    IF ps = <<>>
    THEN [pc |-> "LoopEnd", out |-> <<unknown_command(<<>>)>>, cmd |-> 0]
    ELSE IF lookup(table, ps[1]) # 0
         THEN [pc |-> "Executing", out |-> timestamp_line(verbose),
               cmd |-> lookup(table, ps[1])]
         ELSE on_unregistered(ps[1], info, cmds)

\* Variant of dispatch: the reserved tokens are tested before the registry.
dispatch_meta_first(ps, table, info, cmds, verbose) ==
    IF ps = <<>>
    THEN [pc |-> "LoopEnd", out |-> <<>>, cmd |-> 0]
    ELSE IF ps[1] \in {QUIT, QBANG, HELP, H}
         THEN on_unregistered(ps[1], info, cmds)
         ELSE IF lookup(table, ps[1]) # 0
              THEN on_command(lookup(table, ps[1]), verbose)
              ELSE on_unregistered(ps[1], info, cmds)

\* Lines 198-215: what the loop does with the tokens of a line.
dispatch(ps, table, info, cmds, verbose) ==
    IF ps = <<>>
    THEN [pc |-> "LoopEnd", out |-> <<>>, cmd |-> 0]
    ELSE IF lookup(table, ps[1]) # 0
         THEN on_command(lookup(table, ps[1]), verbose)
         ELSE on_unregistered(ps[1], info, cmds)

\* Variant of on_read_error: the end of input is reported and the loop goes
\* on.
on_read_error_eof_continues(kind) ==
    IF kind = "Interrupted"
    THEN [pc |-> "Exiting", cmd |-> 0,
          out |-> << [kind |-> "text", text |-> <<"CTRL-C">>] >>]
    ELSE IF kind = "Eof"
    THEN [pc |-> "LoopEnd", cmd |-> 0,
          out |-> << [kind |-> "text", text |-> <<"CTRL-D">>] >>]
    ELSE [pc |-> "Exiting", cmd |-> 0,
          out |-> << [kind |-> "text", text |-> <<"Error: ", kind>>] >>]

\* Lines 217-228: rl.readline failed.
on_read_error(kind) ==
    IF kind = "Interrupted"
    THEN [pc |-> "Exiting", cmd |-> 0,
          out |-> << [kind |-> "text", text |-> <<"CTRL-C">>] >>]
    ELSE IF kind = "Eof"
    THEN [pc |-> "Exiting", cmd |-> 0,
          out |-> << [kind |-> "text", text |-> <<"CTRL-D">>] >>]
    ELSE [pc |-> "Exiting", cmd |-> 0,
          out |-> << [kind |-> "text", text |-> <<"Error: ", kind>>] >>]

\* Lines 195-229: one prompt, one line, and what is done with it.
on_readline(rl, table, info, cmds, verbose) ==
    IF rl.kind = "Ok"
    THEN dispatch(parse_cmd(rl.line), table, info, cmds, verbose)
    ELSE on_read_error(rl.kind)

\* Variant of execute_call: the command key is stripped from the tokens.
execute_call_no_key(cmd, client, ps) ==
    [cmd |-> cmd, client |-> client, params |-> Tail(ps)]

\* The call cmd.execute(&mut client_proxy, &params) of line 207.
execute_call(cmd, client, ps) ==
    [cmd |-> cmd, client |-> client, params |-> ps]

\* One iteration of the loop up to the call of the command, if any.
ReadLine ==
    /\ pc = "Prompting"
    /\ \E rl \in ReadlineOutcomes :
          LET ps == IF rl.kind = "Ok" THEN parse_cmd(rl.line) ELSE <<>>
              d == on_readline(rl, alias_to_cmd, cli_info, commands, args.verbose)
              the_client == CHOOSE c \in client_proxy : TRUE
          IN  /\ readline' = rl
              /\ params' = ps
              /\ pc' = d.pc
              /\ out' = d.out
              /\ invoked' = IF d.cmd # 0
                            THEN {execute_call(d.cmd, the_client, ps)}
                            ELSE {}
    /\ cmd_result' = None
    /\ UNCHANGED << recover_result, wp_status, args, node_env, reads, mnemonic_string, entered_mnem,
                    commands, alias_to_cmd, waypoint, gets, client_proxy,
                    cli_info, panic_msg, constructs, conn_checks, recoveries >>

\* What a command action prints: its result, or its failure through
\* report_error.
command_output(cmd, ok) ==
    IF ok
    THEN << [kind |-> "result", text |-> <<"ok">>] >>
    ELSE << report_error("command failed", "cause") >>

\* Variant of after_execute: a failed action ends the loop.
after_execute_break(ok) == IF ok THEN "LoopEnd" ELSE "Exiting"

\* Where main continues when cmd.execute returns: the end of the loop body,
\* whatever the outcome of the action (execute returns no value to main).
after_execute(ok) == "LoopEnd"

\* The command action runs and returns; the loop goes on (lines 207, 194).
Execute ==
    /\ pc = "Executing"
    /\ \E ok \in BOOLEAN :
          /\ cmd_result' = IF ok THEN "ok" ELSE "err"
          /\ out' = command_output((CHOOSE c \in invoked : TRUE).cmd, ok)
          /\ pc' = after_execute(ok)
    /\ UNCHANGED << recover_result, wp_status, args, node_env, reads, mnemonic_string, entered_mnem,
                    commands, alias_to_cmd, waypoint, gets, client_proxy,
                    cli_info, readline, params, invoked, panic_msg,
                    constructs, conn_checks, recoveries >>

\* The end of the loop body (a continue, or the end of the match) leads to
\* the next rl.readline; line, params and the command reference are dropped.
LoopBack ==
    /\ pc = "LoopEnd"
    /\ pc' = "Prompting"
    /\ readline' = NoRead
    /\ params' = <<>>
    /\ invoked' = {}
    /\ cmd_result' = None
    /\ out' = <<>>
    /\ UNCHANGED << recover_result, wp_status, args, node_env, reads, mnemonic_string, entered_mnem,
                    commands, alias_to_cmd, waypoint, gets, client_proxy,
                    cli_info, panic_msg, constructs, conn_checks, recoveries >>

Next ==
    \/ ParseArgs
    \/ ReadSecret
    \/ BuildRegistry
    \/ ResolveWaypoint
    \/ ConstructClient
    \/ TestConnection
    \/ RecoverWallet
    \/ PrintBanner
    \/ ReadLine
    \/ Execute
    \/ LoopBack

Spec == Init /\ [][Next]_vars

\* The same program linked with a command library that registers q! and h,
\* started with a literal waypoint.
InitShadow ==
    /\ Init
    /\ args.waypoint = LiteralWaypoint
    /\ args.waypoint_url = None
    /\ args.mnemonic_file = None
    /\ node_env = "unset"

NextShadow ==
    \/ ParseArgs
    \/ ReadSecret
    \/ BuildShadowRegistry
    \/ ResolveWaypoint
    \/ ConstructClient
    \/ TestConnection
    \/ RecoverWallet
    \/ PrintBanner
    \/ ReadLine
    \/ Execute
    \/ LoopBack

SpecShadow == InitShadow /\ [][NextShadow]_vars

\* A session with a literal waypoint, as the loop runs it when every command
\* action returns and the operator eventually asks for the exit.
InitLive ==
    /\ Init
    /\ args.waypoint = LiteralWaypoint
    /\ args.waypoint_url = None
    /\ args.mnemonic_file = None
    /\ node_env = "prod"

\* rl.readline delivers the end of input, an interrupt, or a line whose first
\* token is a quit token.
ExitRequested ==
    /\ ReadLine
    /\ \/ readline'.kind \in {"Eof", "Interrupted"}
       \/ /\ readline'.kind = "Ok"
          /\ params' # <<>>
          /\ params'[1] \in {QUIT, QBANG}

SpecLive ==
    /\ InitLive
    /\ [][Next]_vars
    /\ WF_vars(Execute)
    /\ WF_vars(LoopBack)
    /\ SF_vars(ExitRequested)

\* The states in which the process has ended.
Terminated == pc \in {"usage_error", "panicked", "Exiting"}

TypeOK ==
    /\ pc \in {"main", "usage_error", "secret", "registry", "waypoint",
               "construct", "connect", "recover", "help", "panicked",
               "Prompting", "Executing", "LoopEnd", "Exiting"}
    /\ args \in ArgsSet
    /\ Cardinality(client_proxy) <= 1
    /\ Cardinality(invoked) <= 1
    /\ cmd_result \in {None, "ok", "err"}
    /\ recover_result \in {None, "ok", "err"}

\* ================================================================== claims
\* Vocabulary of the claims.
ReadOk == readline.kind = "Ok"

FirstToken == params[1]

AllAliases == UNION {Range(commands[i].aliases) : i \in DOMAIN commands}

Owners(al) == {i \in DOMAIN commands : al \in Range(commands[i].aliases)}

MetaTokens == {QUIT, QBANG, HELP, H}

\* The last line read has a registered alias as its first token.
AliasRead == ReadOk /\ params # <<>> /\ FirstToken \in AllAliases

\* The last line read is empty or whitespace only.
BlankRead ==
    ReadOk /\ \A i \in DOMAIN readline.line : readline.line[i] \in AsciiWs

\* The last line read has a quit token as its first token.
QuitRead == ReadOk /\ params # <<>> /\ FirstToken \in {QUIT, QBANG}

\* The last line read has a help token as its first token.
HelpRead == ReadOk /\ params # <<>> /\ FirstToken \in {HELP, H}

\* The last line read has a first token that is neither alias nor meta-token.
UnknownRead ==
    ReadOk /\ params # <<>> /\ FirstToken \notin AllAliases
           /\ FirstToken \notin MetaTokens

ErrorReported(o) == \E i \in DOMAIN o : o[i].kind = "error"

\* ---------------------------------------------------------------------- C1
\* C1: when the action of a registered command fails, the failure is
\* reported, the loop body ends normally, and the step after it is the next
\* prompt; the loop does not go to Exiting.
C1_FailedActionReturnsToPrompt ==
    [][ /\ (pc = "Executing" /\ cmd_result' = "err")
            => (pc' = "LoopEnd" /\ ErrorReported(out'))
        /\ (pc = "LoopEnd" /\ cmd_result = "err") => pc' = "Prompting"
      ]_vars

C1_Witness ==
    pc = "LoopEnd" /\ cmd_result = "err" /\ invoked # {} /\ ErrorReported(out)

\* ---------------------------------------------------------------------- C2
\* C2 as stated: Exiting is reached only by a quit token, end-of-input or an
\* interrupt read at the prompt.
C2_ExitOnlyQuitEofInterrupt ==
    pc = "Exiting" =>
        \/ readline.kind \in {"Interrupted", "Eof"}
        \/ QuitRead

\* C2 amended: Exiting is reached only by a quit token, end-of-input, an
\* interrupt, or any other error of the line read; never with a command
\* invoked or a command outcome pending.
C2_ExitOnlyQuitOrReadFailure ==
    pc = "Exiting" =>
        /\ invoked = {}
        /\ cmd_result = None
        /\ \/ readline.kind \in {"Interrupted", "Eof", "Io"}
           \/ QuitRead

C2_Witness ==
    pc = "Exiting" /\ readline.kind = "Io" /\ ~ErrorReported(out)

\* ---------------------------------------------------------------------- C3
\* C3: a line whose first token is a registered alias calls exactly one
\* action, that of the single descriptor owning the alias, with the
\* session's client handle and all the tokens of the line, the key included;
\* no alias belongs to two descriptors.
C3_AliasDispatch ==
    /\ \A i, j \in DOMAIN commands :
          i # j => Range(commands[i].aliases) \cap Range(commands[j].aliases) = {}
    /\ AliasRead =>
          /\ Cardinality(Owners(FirstToken)) = 1
          /\ Cardinality(invoked) = 1
          /\ \A c \in invoked :
                /\ c.cmd \in Owners(FirstToken)
                /\ c.client \in client_proxy
                /\ c.params = parse_cmd(readline.line)
                /\ c.params[1] = FirstToken

C3_Witness ==
    /\ AliasRead
    /\ pc = "Executing"
    /\ Len(params) >= 2
    /\ \E c \in invoked : commands[c.cmd] = QueryCommand

\* ---------------------------------------------------------------------- C4
\* C4: an empty or whitespace-only line calls no action, prints nothing (no
\* help, no diagnostic), does not exit, and is followed by the next prompt.
C4_BlankLineReprompts ==
    [][ /\ (pc = "Prompting" /\ BlankRead')
            => (pc' = "LoopEnd" /\ invoked' = {} /\ out' = <<>>)
        /\ (pc = "LoopEnd" /\ BlankRead) => pc' = "Prompting"
      ]_vars

C4_Witness ==
    pc = "LoopEnd" /\ BlankRead /\ Len(readline.line) >= 2
        /\ "\t" \in Range(readline.line)

\* ---------------------------------------------------------------------- C5
\* C5: a line whose first token is quit or q! takes the loop to Exiting
\* without calling an action, and nothing happens after Exiting (no prompt).
C5_QuitExits ==
    [][ /\ (pc = "Prompting" /\ QuitRead')
            => (pc' = "Exiting" /\ invoked' = {} /\ cmd_result' = None)
        /\ pc # "Exiting"
      ]_vars

C5_Witness ==
    pc = "Exiting" /\ QuitRead /\ FirstToken = QUIT /\ Len(params) >= 2

\* ---------------------------------------------------------------------- C6
\* A token whose {:?} rendering is the token between double quotes.
NoEscapedChar(tok) == \A i \in DOMAIN tok : tok[i] \notin {"\"", "\\"}

\* The token between double quotes, with a backslash before every double
\* quote and backslash.
Quoted(tok) ==
    <<"\"">> \o
    Concat([i \in DOMAIN tok |->
              IF tok[i] \in {"\"", "\\"} THEN <<"\\", tok[i]>> ELSE <<tok[i]>>])
    \o <<"\"">>

\* C6 as stated: an unknown first token gets a diagnostic that contains the
\* literal token, no action is called, and the loop does not exit.
C6_UnknownDiagnosticLiteral ==
    UnknownRead =>
        /\ pc = "LoopEnd"
        /\ invoked = {}
        /\ Len(out) = 1
        /\ out[1].kind = "unknown"
        /\ Contains(out[1].text, FirstToken)

\* C6 amended: an unknown first token gets a diagnostic that contains the
\* token quoted and escaped, hence the literal token when it has no double
\* quote or backslash; no action is called and the next prompt follows.
C6_UnknownDiagnosticQuoted ==
    [][ /\ (pc = "Prompting" /\ UnknownRead')
            => /\ pc' = "LoopEnd"
               /\ invoked' = {}
               /\ Len(out') = 1
               /\ out'[1].kind = "unknown"
               /\ Contains(out'[1].text, Quoted(params'[1]))
               /\ NoEscapedChar(params'[1])
                      => Contains(out'[1].text, params'[1])
        /\ (pc = "LoopEnd" /\ UnknownRead) => pc' = "Prompting"
      ]_vars

C6_Witness ==
    /\ pc = "LoopEnd"
    /\ UnknownRead
    /\ ~NoEscapedChar(FirstToken)
    /\ ~Contains(out[1].text, FirstToken)

\* ---------------------------------------------------------------------- C7
\* Positions of the help entries in an output.
EntryIdx(o) == {i \in DOMAIN o : o[i].kind = "entry"}

\* An entry shows the aliases, the usage string and the description of cmd.
EntryShows(e, cmd) ==
    /\ Contains(e.text, join(cmd.aliases, " | "))
    /\ \A k \in DOMAIN cmd.aliases : Contains(e.text, cmd.aliases[k])
    /\ \E i, j \in DOMAIN e.text :
          i < j /\ e.text[i] = cmd.params_help /\ e.text[j] = cmd.description

\* The shape of the help text: the connection summary first, then the
\* entries, the k-th entry showing the k-th descriptor, then the help line
\* and the quit line.
HelpShape(o) ==
    /\ o # <<>>
    /\ o[1] = [kind |-> "summary", text |-> cli_info]
    /\ Cardinality(EntryIdx(o)) = Len(commands)
    /\ \A k \in DOMAIN commands :
          \E i \in EntryIdx(o) :
              /\ Cardinality({j \in EntryIdx(o) : j < i}) = k - 1
              /\ EntryShows(o[i], commands[k])
              /\ \A k2 \in DOMAIN commands :
                    k2 # k => ~EntryShows(o[i], commands[k2])
    /\ \E h, q \in DOMAIN o :
          /\ h < q
          /\ o[h] = HelpLine
          /\ o[q] = QuitLine
          /\ \A i \in EntryIdx(o) : 1 < i /\ i < h
          /\ \A i \in DOMAIN o : (o[i] = HelpLine) = (i = h)
          /\ \A i \in DOMAIN o : (o[i] = QuitLine) = (i = q)

\* C7: on help or h the output is the connection summary, one entry per
\* registered descriptor in registry order with its aliases, usage and
\* description, then the help and quit lines; each descriptor appears once,
\* no action is called, and the next prompt follows.
C7_HelpOutput ==
    [][ /\ (pc = "Prompting" /\ HelpRead')
            => (pc' = "LoopEnd" /\ invoked' = {} /\ HelpShape(out'))
        /\ (pc = "LoopEnd" /\ HelpRead) => pc' = "Prompting"
      ]_vars

C7_Witness ==
    /\ pc = "LoopEnd"
    /\ HelpRead
    /\ FirstToken = H
    /\ Cardinality(EntryIdx(out)) = 3
    /\ cli_info # <<>>

\* ---------------------------------------------------------------------- C8
\* C8: with a literal waypoint in the arguments, with or without a waypoint
\* URL, no waypoint request is ever sent and the client is constructed with
\* exactly the literal value.
C8_LiteralNoNetwork ==
    args.waypoint # None =>
        /\ gets = <<>>
        /\ wp_status = "resolved" => waypoint = args.waypoint
        /\ \A c \in client_proxy : c.waypoint = args.waypoint

C8_Witness ==
    /\ args.waypoint # None
    /\ args.waypoint_url # None
    /\ client_proxy # {}
    /\ gets = <<>>

\* ---------------------------------------------------------------------- C9
UrlOnly == args.waypoint = None /\ args.waypoint_url # None

\* Every failure of the resolution ends the process with a message naming
\* the URL, before any client is constructed.
FailureIsFatal ==
    wp_status = "failed" =>
        /\ pc = "panicked"
        /\ \E i \in DOMAIN panic_msg : panic_msg[i] = args.waypoint_url
        /\ client_proxy = {}
        /\ constructs = 0

C10_ClientNeedsWaypoint ==
    client_proxy # {} =>
        /\ wp_status = "resolved"
        /\ waypoint # None
        /\ \A c \in client_proxy : c.waypoint = waypoint

C10_Witness ==
    /\ client_proxy # {}
    /\ gets # <<>>
    /\ waypoint \in WaypointTexts

\* --------------------------------------------------------------------- C11
\* The loop has been entered.
SessionStarted == pc \in {"Prompting", "Executing", "LoopEnd", "Exiting"}

\* With neither option the process stops at the argument parser, before the
\* secret is read, any request is sent or any client is constructed.
NeitherIsUsageError ==
    (args.waypoint = None /\ args.waypoint_url = None) =>
        /\ pc \in {"main", "usage_error"}
        /\ reads = <<>>
        /\ mnemonic_string = None
        /\ gets = <<>>
        /\ constructs = 0
        /\ conn_checks = 0
        /\ client_proxy = {}

\* C11 as stated: a session starts only with exactly one of the literal
\* waypoint and the waypoint URL; with neither the process stops first.
C11_ExactlyOneAnchorSource ==
    /\ SessionStarted =>
          (args.waypoint # None) # (args.waypoint_url # None)
    /\ NeitherIsUsageError

\* C11 amended: a session starts only with at least one of the literal
\* waypoint and the waypoint URL (both may be given); with neither the
\* process stops at the argument parser.
C11_AtLeastOneAnchorSource ==
    /\ SessionStarted =>
          (args.waypoint # None \/ args.waypoint_url # None)
    /\ NeitherIsUsageError

C11_Witness ==
    /\ args.waypoint = None
    /\ args.waypoint_url = None
    /\ pc = "usage_error"
    /\ out # <<>>

\* --------------------------------------------------------------------- C12
\* Positions of main before the recovery step has been passed.
BeforeRecovery ==
    pc \in {"main", "usage_error", "secret", "registry", "waypoint",
            "construct", "connect", "recover"}

\* The entered secret is non-empty or a mnemonic file was given.
RecoveryDue == mnemonic_string # "" \/ args.mnemonic_file # None

\* C12: the bootstrap performs the wallet recovery if and only if the
\* entered secret is non-empty or a mnemonic file was given; then exactly
\* once, after the successful connectivity check and before the first
\* prompt; otherwise never.
C12_RecoveryIffSecretOrFile ==
    /\ recoveries \in {0, 1}
    /\ BeforeRecovery => recoveries = 0
    /\ (~BeforeRecovery /\ pc # "panicked") =>
          recoveries = IF RecoveryDue THEN 1 ELSE 0
    /\ recoveries = 1 =>
          /\ conn_checks = 1
          /\ cli_info # <<>>
          /\ client_proxy # {}
    /\ pc = "panicked" => recoveries = 0

C12_Witness ==
    /\ pc = "Prompting"
    /\ recoveries = 1
    /\ mnemonic_string # ""
    /\ args.mnemonic_file = None

\* --------------------------------------------------------------------- C13
\* C13: a failed wallet recovery is reported on the error channel and the
\* session starts all the same: the next step prints the help text and
\* reaches the first prompt, as it does after a successful recovery.
C13_RecoveryFailureNotFatal ==
    [][ /\ (pc = "recover" /\ recover_result' = "err")
            => (pc' = "help" /\ ErrorReported(out') /\ recoveries' = 1)
        /\ pc = "help"
            => /\ pc' = "Prompting"
               /\ HelpShape(out')
               /\ out'[Len(out')].text = <<"Please, input commands: \n">>
               /\ UNCHANGED << client_proxy, commands, alias_to_cmd, cli_info >>
      ]_vars

C13_Witness ==
    pc = "help" /\ recover_result = "err" /\ ErrorReported(out)

\* --------------------------------------------------------------------- C14
\* A request was sent, a client constructed or the validator queried.
NetworkTouched ==
    gets # <<>> \/ constructs > 0 \/ conn_checks > 0 \/ client_proxy # {}

\* C14: the secret is read before any network activity: the waypoint GET,
\* the client construction and the connectivity query all come after the
\* completed read, and a failed read is followed by none of them.
C14_SecretBeforeNetwork ==
    /\ NetworkTouched => (Len(reads) = 1 /\ mnemonic_string # None)
    /\ mnemonic_string = None => ~NetworkTouched
    /\ pc \in {"waypoint", "construct", "connect"} => mnemonic_string # None

C14_Witness ==
    /\ pc = "panicked"
    /\ gets # <<>>
    /\ constructs = 0
    /\ Len(reads) = 1
    /\ mnemonic_string # None

\* --------------------------------------------------------------------- C15
\* The secret read has been attempted.
SecretAttempted == pc \notin {"main", "usage_error", "secret"}

\* The read is attempted once, and a failed read ends the process there.
OneReadFailureFatal ==
    /\ Len(reads) <= 1
    /\ SecretAttempted => Len(reads) = 1
    /\ (Len(reads) = 1 /\ mnemonic_string = None) =>
          /\ pc = "panicked"
          /\ ~NetworkTouched
          /\ commands = <<>>

\* C15 as stated: the masked terminal is read exactly when NODE_ENV is prod
\* or unset, the standard input for every other value; one attempt per
\* session, and a failed read is fatal.
C15_PathByEnvironment ==
    /\ SecretAttempted =>
          reads = << IF node_env \in {"prod", "unset"} THEN "tty" ELSE "stdin" >>
    /\ OneReadFailureFatal

\* C15 amended: the masked terminal is read exactly when NODE_ENV is prod,
\* is unset, or holds a value that is not valid Unicode; the standard input
\* for every other value; one attempt per session, and a failed read is
\* fatal.
C15_PathByReadableEnvironment ==
    /\ SecretAttempted =>
          reads = << IF node_env \in {"prod", "unset", "not_unicode"}
                     THEN "tty" ELSE "stdin" >>
    /\ OneReadFailureFatal

C15_Witness ==
    /\ node_env = "test"
    /\ reads = <<"stdin">>
    /\ mnemonic_string = None
    /\ pc = "panicked"

\* --------------------------------------------------------------------- C16
\* Some part of the help text is in the output.
HelpPrinted(o) == \E i \in DOMAIN o : o[i].kind \in {"summary", "entry", "meta"}

\* C16 (checked with a registry that registers q! and h): a first token that
\* is a registered alias is dispatched to its command even when it is a
\* reserved token; the loop exits or prints the help on a line only when its
\* first token is not a registered alias.
C16_RegistryBeforeMetaTokens ==
    (ReadOk /\ params # <<>>) =>
        /\ FirstToken \in AllAliases =>
              /\ pc \in {"Executing", "LoopEnd"}
              /\ Cardinality(invoked) = 1
              /\ \A c \in invoked : c.cmd \in Owners(FirstToken)
              /\ ~HelpPrinted(out)
        /\ (pc = "Exiting" \/ HelpPrinted(out)) =>
              /\ FirstToken \notin AllAliases
              /\ FirstToken \in MetaTokens
              /\ invoked = {}

C16_Witness ==
    /\ pc = "Executing"
    /\ ReadOk
    /\ params # <<>>
    /\ FirstToken = QBANG
    /\ \E c \in invoked : commands[c.cmd] = ShadowCommand

\* --------------------------------------------------------------------- C17
\* ClientProxy::new was called and returned no client.
ConstructionFailed == constructs = 1 /\ client_proxy = {}

\* test_validator_connection was called and returned no ledger metadata.
ConnectivityFailed == conn_checks = 1 /\ cli_info = <<>>

\* C17: once the client construction or the connectivity check has failed,
\* the process has ended by a panic: no recovery was made, no help text is
\* printed, no line is read and no command is invoked; the message of the
\* connectivity failure contains the validator URL and the cause.
C17_StartupFailureTerminates ==
    (ConstructionFailed \/ ConnectivityFailed) =>
        /\ pc = "panicked"
        /\ recoveries = 0
        /\ recover_result = None
        /\ ~HelpPrinted(out)
        /\ readline = NoRead
        /\ invoked = {}
        /\ panic_msg # <<>>
        /\ ConnectivityFailed =>
              /\ Contains(panic_msg, <<args.url>>)
              /\ Contains(panic_msg, <<"cause">>)

C17_Witness ==
    /\ ConnectivityFailed
    /\ pc = "panicked"
    /\ wants_recovery(entered_mnem, args)
    /\ Contains(panic_msg, <<ValidatorUrl>>)

\* --------------------------------------------------------------------- C18
\* C18: the secret read, the waypoint GET, the client construction, the
\* connectivity query and the bootstrap recovery are each made at most once.
C18_NoBootstrapRetry ==
    /\ Len(reads) <= 1
    /\ Len(gets) <= 1
    /\ constructs <= 1
    /\ conn_checks <= 1
    /\ recoveries <= 1

\* Every step was made, and the recovery failed.
C18_Witness ==
    /\ pc = "help"
    /\ recover_result = "err"
    /\ Len(reads) = 1
    /\ Len(gets) = 1
    /\ constructs = 1
    /\ conn_checks = 1
    /\ recoveries = 1

\* --------------------------------------------------------------------- C19
\* The current-time line of verbose mode is in the output of the last step.
TimestampPrinted == \E i \in DOMAIN out : out[i].kind = "timestamp"

\* C19: the timestamp is printed exactly when, in verbose mode, a command is
\* about to be invoked, as the last output before the invocation; it is never
\* printed without verbosity, nor for a blank line, help, quit or an unknown
\* token.
C19_TimestampIffVerbose ==
    /\ TimestampPrinted <=> (pc = "Executing" /\ args.verbose)
    /\ TimestampPrinted =>
          /\ AliasRead
          /\ invoked # {}
          /\ cmd_result = None
          /\ out[Len(out)].kind = "timestamp"
          /\ Cardinality({i \in DOMAIN out : out[i].kind = "timestamp"}) = 1
    /\ (BlankRead \/ HelpRead \/ QuitRead \/ UnknownRead) => ~TimestampPrinted

C19_Witness ==
    /\ pc = "Executing"
    /\ args.verbose
    /\ TimestampPrinted
    /\ invoked # {}

\* --------------------------------------------------------------------- C20
\* The farewell printed for the end of input, and for an interrupt.
FarewellEof == << [kind |-> "text", text |-> <<"CTRL-D">>] >>

FarewellInterrupt == << [kind |-> "text", text |-> <<"CTRL-C">>] >>

\* The end of input and the interrupt lead in one step from Prompting to
\* Exiting, each with its own farewell; nothing is done once Exiting.
ExitStep ==
    /\ pc # "Exiting"
    /\ FarewellEof # FarewellInterrupt
    /\ (pc = "Prompting" /\ readline'.kind = "Eof") =>
          (pc' = "Exiting" /\ out' = FarewellEof /\ invoked' = {})
    /\ (pc = "Prompting" /\ readline'.kind = "Interrupted") =>
          (pc' = "Exiting" /\ out' = FarewellInterrupt /\ invoked' = {})

\* C20 (every command action returns, and the input delivers a quit token,
\* the end of input or an interrupt again and again until one is read): a
\* loop that is Prompting eventually is Exiting; the end of input and the
\* interrupt go directly to Exiting with distinct farewells; once Exiting, no
\* prompt is issued and no command is invoked.
C20_EventuallyExiting ==
    /\ [][ExitStep]_vars
    /\ (pc \in {"Prompting", "Executing", "LoopEnd"}) ~> (pc = "Exiting")

C20_Witness ==
    /\ pc = "Exiting"
    /\ readline.kind = "Eof"
    /\ out = FarewellEof
    /\ client_proxy # {}
====
